---- MODULE Spec2Model ----
(***************************************************************************)
(* fimapi: a typed client for the FimFiction REST API.                     *)
(*                                                                         *)
(* The module models the error-code taxonomy (response/error.rs), the      *)
(* response extraction pipeline (response/mod.rs), the client wrapper      *)
(* (client.rs) and the scope registry (auth/scopes.rs).                    *)
(*                                                                         *)
(* Rust values are modelled as records:                                    *)
(*   Result<T,E>   [ok |-> TRUE, val |-> t]  /  [ok |-> FALSE, err |-> e]  *)
(*   Option<T>     [some |-> TRUE, val |-> t] / [some |-> FALSE]           *)
(*   a call        [outcome |-> "return", result |-> r]                    *)
(*                 [outcome |-> "panic",  payload |-> e]  (unwrap on Err)  *)
(*   serde_json::Value  [t |-> "null"],                                    *)
(*                 [t |-> "number", k |-> "PosInt"|"NegInt"|"Float",       *)
(*                  n |-> _], [t |-> "string", s |-> _],                   *)
(*                 [t |-> "array", a |-> <<...>>],                         *)
(*                 [t |-> "object", o |-> [key |-> value, ...]]            *)
(***************************************************************************)
EXTENDS Integers, Sequences, FiniteSets, TLC

VARIABLES
    client,     \* the caller's Client: Uninitialized, or Ready with its token
    requests,   \* POSTs sent to the token endpoint
    body_read,  \* whether the body of the response at hand has been read
    op,         \* the call the caller made ("none" before it)
    pc,         \* where that call is: "idle" before it, "send" or "json" while
                \* its future is suspended at that .await, "done", "dropped"
    arg,        \* the input of that call
    ret         \* how that call ended: a returned value, or a panic

vars == <<client, requests, body_read, op, pc, arg, ret>>

(***************************************************************************)
(* Bounds of the model.                                                    *)
(***************************************************************************)
\* Codes are drawn from windows reaching Margin below and above the code
\* ranges of the families and of the large-code threshold.
Margin == 12

(***************************************************************************)
(* Rust's Result and Option.                                               *)
(***************************************************************************)
Ok(x) == [ok |-> TRUE, val |-> x]
Err(e) == [ok |-> FALSE, err |-> e]
Some(x) == [some |-> TRUE, val |-> x]
None == [some |-> FALSE]
Return(r) == [outcome |-> "return", result |-> r]
Panic(e) == [outcome |-> "panic", payload |-> e]

(***************************************************************************)
(* response/error.rs: InvalidErrorCode and the error-code decoders.        *)
(***************************************************************************)
BadCode(n) == [variant |-> "BadCode", code |-> n]
Invalid(v) == [variant |-> "Invalid", value |-> v]

\* A faulty Malformed decoder: its sub-indexes start at 0, as the other
\* families' do.
Malformed_try_from_zero_based(value) ==
    IF value \div 10 # 400
    THEN Err(BadCode(value))
    ELSE LET idx == value % 10 IN
         CASE idx = 0 -> Ok("Body")
           [] idx = 1 -> Ok("Include")
           [] OTHER -> Err(BadCode(value))

\* impl TryFrom<u64> for Malformed
Malformed_try_from(value) ==
    IF value \div 10 # 400
    THEN Err(BadCode(value))
    ELSE LET idx == value % 10 IN
         CASE idx = 1 -> Ok("Body")
           [] idx = 2 -> Ok("Include")
           [] OTHER -> Err(BadCode(value))

\* A faulty Forbidden decoder: its sub-indexes start at 1.
Forbidden_try_from_shifted(value) ==
    IF value \div 10 # 403
    THEN Err(BadCode(value))
    ELSE LET idx == value % 10 IN
         CASE idx = 1 -> Ok("InvalidPermission")
           [] idx = 2 -> Ok("MissingScope")
           [] idx = 3 -> Ok("InvalidToken")
           [] OTHER -> Err(BadCode(value))

\* impl TryFrom<u64> for Forbidden
Forbidden_try_from(value) ==
    IF value \div 10 # 403
    THEN Err(BadCode(value))
    ELSE LET idx == value % 10 IN
         CASE idx = 0 -> Ok("InvalidPermission")
           [] idx = 1 -> Ok("MissingScope")
           [] idx = 2 -> Ok("InvalidToken")
           [] OTHER -> Err(BadCode(value))

\* impl TryFrom<u64> for NotFound
NotFound_try_from(value) ==
    IF value \div 10 # 404
    THEN Err(BadCode(value))
    ELSE LET idx == value % 10 IN
         CASE idx = 0 -> Ok("ResourceNotFound")
           [] idx = 1 -> Ok("InvalidApplication")
           [] idx = 2 -> Ok("EndpointMissing")
           [] OTHER -> Err(BadCode(value))

\* The sub-kinds of Unprocessable in the order of the decoder's match arms.
UnprocessableTable ==
    << "MissingParameter", "InvalidArgument", "IncorrectSecret",
       "InvalidGrantType", "MissingAuthHeader", "InvalidAttributes",
       "UnsupportedAttribute", "InvalidFilter", "InvalidPagination",
       "MalformedAuthHeader", "InvalidAttribute", "InvalidSortField",
       "MalformedSortField" >>

\* A faulty threshold: a zero short.
Unprocessable_is_large_1000(value) == value > 1000

\* The threshold test that selects the large-code rule.
Unprocessable_is_large(value) == value > 10000

\* impl TryFrom<u64> for Unprocessable
Unprocessable_try_from(value) ==
    LET large == Unprocessable_is_large(value)
        lead == IF large THEN value \div 100 ELSE value \div 10
        idx == IF large THEN value % 100 ELSE value % 10
    IN IF lead # 422
       THEN Err(BadCode(value))
       ELSE IF idx \in 0..12
            THEN Ok(UnprocessableTable[idx + 1])
            ELSE Err(BadCode(value))

\* ErrorKind's variants: one per family, the sub-kind inside.
Kind(family, sub) == [family |-> family, sub |-> sub]
RateLimited == [family |-> "RateLimited"]

\* The `?` on a family decoder inside ErrorKind::try_from.
Wrap(family, r) == IF r.ok THEN Ok(Kind(family, r.val)) ELSE r

\* impl TryFrom<u64> for ErrorKind
ErrorKind_try_from(value) ==
    LET v == value \div 10 IN
    CASE v = 400 -> Wrap("Malformed", Malformed_try_from(value))
      [] v = 403 -> Wrap("Forbidden", Forbidden_try_from(value))
      [] v = 404 -> Wrap("NotFound", NotFound_try_from(value))
      [] v = 429 -> Ok(RateLimited)
      [] v = 422 \/ v \div 10 = 422
           -> Wrap("Unprocessable", Unprocessable_try_from(value))
      [] OTHER -> Err(BadCode(v))

(***************************************************************************)
(* serde_json::Value as the code uses it.                                  *)
(***************************************************************************)
JNull == [t |-> "null"]
JNum(k, n) == [t |-> "number", k |-> k, n |-> n]
JU64(n) == JNum("PosInt", n)
JStr(s) == [t |-> "string", s |-> s]
JArr(a) == [t |-> "array", a |-> a]
JObj(o) == [t |-> "object", o |-> o]

\* Value::get(&str): a member of an object, None for every other value.
Value_get_key(v, key) ==
    IF v.t = "object" /\ key \in DOMAIN v.o THEN Some(v.o[key]) ELSE None

\* Value::get(usize): an element of an array, None for every other value.
Value_get_index(v, i) ==
    IF v.t = "array" /\ i + 1 \in DOMAIN v.a THEN Some(v.a[i + 1]) ELSE None

\* Value::as_u64: only a non-negative integer number.
Value_as_u64(v) ==
    IF v.t = "number" /\ v.k = "PosInt" THEN Some(v.n) ELSE None

\* Value::as_str: only a string.
Value_as_str(v) == IF v.t = "string" THEN Some(v.s) ELSE None

(***************************************************************************)
(* response/error.rs: APIError and Error.                                  *)
(***************************************************************************)
APIError(kind, meta) == [kind |-> kind, meta |-> meta]

\* Error::API(e), and Error::Request(e) around a reqwest::Error of some kind.
Error_API(e) == [variant |-> "API", error |-> e]
Error_Request(kind) == [variant |-> "Request", error |-> kind]

\* impl TryFrom<serde_json::Value> for APIError
APIError_try_from(value) ==
    LET c == Value_get_key(value, "code") IN
    IF ~c.some THEN Err(Invalid(value))
    ELSE LET code == Value_as_u64(c.val) IN
         IF ~code.some THEN Err(Invalid(value))
         ELSE LET kind == ErrorKind_try_from(code.val) IN
              IF ~kind.ok THEN kind
              ELSE LET m == Value_get_key(value, "meta")
                       meta == IF m.some THEN m.val ELSE JNull
                   IN Ok(APIError(kind.val, meta))

(***************************************************************************)
(* response/mod.rs: the extraction pipeline.                               *)
(***************************************************************************)
\* A faulty extract_error: it takes the last element of `errors`, not the first.
extract_error_last(self) ==
    LET errors == Value_get_key(self, "errors")
        n == IF errors.some /\ errors.val.t = "array" THEN Len(errors.val.a) ELSE 0
        last == IF errors.some THEN Value_get_index(errors.val, n - 1) ELSE None
    IN IF ~last.some
       THEN Err(Invalid(self))
       ELSE APIError_try_from(last.val)

\* impl ExtractErrExt for serde_json::Value
extract_error(self) ==
    LET errors == Value_get_key(self, "errors")
        first == IF errors.some THEN Value_get_index(errors.val, 0) ELSE None
    IN IF ~first.some
       THEN Err(Invalid(self))
       ELSE APIError_try_from(first.val)

\* A response: its status and its body, which is JSON text or is not.
Response(status, body) == [status |-> status, body |-> body]
JsonBody(v) == [json |-> TRUE, value |-> v]
TextBody(text) == [json |-> FALSE, text |-> text]

\* StatusCode::is_client_error
is_client_error(status) == 400 <= status /\ status < 500

\* A faulty server-error test: 500 itself is left out.
is_server_error_above_500(status) == 500 < status /\ status < 600

\* StatusCode::is_server_error
is_server_error(status) == 500 <= status /\ status < 600

\* Response::json::<Value>(): the decoded body, or the transport's decode error.
Response_json(s) ==
    IF s.body.json THEN Ok(s.body.value) ELSE Err(Error_Request("Decode"))

\* The branches of extract_api_response that await s.json(): every status
\* that is not handled by the server-error branch.
awaits_json(status) == is_client_error(status) \/ ~is_server_error(status)

\* What one call of extract_api_response does: how it ends (out) and whether
\* it read the body of the response (body_read).
Extracted(out, read) == [out |-> out, body_read |-> read]

\* extract_api_response::<serde_json::Value>
extract_api_response(s) ==
    IF is_client_error(s.status)
    THEN LET v == Response_json(s) IN
         IF ~v.ok THEN Extracted(Return(v), TRUE)
         ELSE LET e == extract_error(v.val) IN
              IF e.ok
              THEN Extracted(Return(Err(Error_API(e.val))), TRUE)
              ELSE Extracted(Panic(e.err), TRUE)
    ELSE IF is_server_error(s.status)
    THEN Extracted(Return(Err(Error_Request("Status"))), FALSE)
    ELSE Extracted(Return(Response_json(s)), TRUE)

(***************************************************************************)
(* client.rs: the client wrapper.                                          *)
(***************************************************************************)
Uninitialized == [state |-> "Uninitialized"]
Ready(bearer_token) == [state |-> "Ready", bearer_token |-> bearer_token]

\* The transport's answer to the POST: a response, or a failure to send.
SendFailure == [sent |-> FALSE]
Sent(s) == [sent |-> TRUE, response |-> s]

\* A faulty format string: the space is missing.
format_bearer_no_space(token) == "Bearer" \o token

\* format!("Bearer {}", token)
format_bearer(token) == "Bearer " \o token

\* A faulty with_client: it reads the member `token`, not `access_token`.
Client_with_client_token_member(reply) ==
    IF ~reply.sent THEN Return(Err(Error_Request("Send")))
    ELSE LET x == extract_api_response(reply.response).out IN
         IF x.outcome = "panic" THEN x
         ELSE IF ~x.result.ok THEN x
         ELSE LET field == Value_get_key(x.result.val, "token") IN
              IF ~field.some THEN Panic("Option::unwrap on None")
              ELSE LET token == Value_as_str(field.val) IN
                   IF ~token.some THEN Panic("Option::unwrap on None")
                   ELSE Return(Ok(format_bearer(token.val)))

\* Client::with_client, after the POST got `reply`: Ok(the bearer token of
\* the new Client), an Err, or a panic of one of the unwraps.
Client_with_client(reply) ==
    IF ~reply.sent THEN Return(Err(Error_Request("Send")))
    ELSE LET x == extract_api_response(reply.response).out IN
         IF x.outcome = "panic" THEN x
         ELSE IF ~x.result.ok THEN x
         ELSE LET field == Value_get_key(x.result.val, "access_token") IN
              IF ~field.some THEN Panic("Option::unwrap on None")
              ELSE LET token == Value_as_str(field.val) IN
                   IF ~token.some THEN Panic("Option::unwrap on None")
                   ELSE Return(Ok(format_bearer(token.val)))

\* Client::from_token: the bearer token of the new Client.
Client_from_token(tok) == tok

\* Client::bearer_token
Client_bearer_token(self) == self.bearer_token

(***************************************************************************)
(* auth/scopes.rs: the scope registry.                                     *)
(***************************************************************************)
Scopes ==
    { "WriteBlogPosts", "ReadBookshelves", "WriteBookshelves",
      "ReadBookshelfItems", "WriteBookshelfItems", "ReadPms", "WritePms",
      "WriteFollowers", "ReadStories", "WriteStories", "WriteComments",
      "ReadUser", "WriteUser", "ReadChapterRead", "WriteChapterRead" }

\* Scope::as_str
Scope_as_str(self) ==
    CASE self = "WriteBlogPosts" -> "write_blog_posts"
      [] self = "ReadBookshelves" -> "read_bookshelves"
      [] self = "WriteBookshelves" -> "write_bookshelves"
      [] self = "ReadBookshelfItems" -> "read_bookshelf_items"
      [] self = "WriteBookshelfItems" -> "write_bookshelf_items"
      [] self = "ReadPms" -> "read_pms"
      [] self = "WritePms" -> "write_pms"
      [] self = "WriteFollowers" -> "write_followers"
      [] self = "ReadStories" -> "read_followers"
      [] self = "WriteStories" -> "write_stories"
      [] self = "WriteComments" -> "write_comments"
      [] self = "ReadUser" -> "read_user"
      [] self = "WriteUser" -> "write_user"
      [] self = "ReadChapterRead" -> "read_chapter_read"
      [] self = "WriteChapterRead" -> "write_chapter_read"

ParseScopeError(s) == [variant |-> "ParseScopeError", string |-> s]

\* A faulty parser: the ReadStories arm matches "read_stories".
Scope_from_str_read_stories(s) ==
    CASE s = "write_blog_posts" -> Ok("WriteBlogPosts")
      [] s = "read_bookshelves" -> Ok("ReadBookshelves")
      [] s = "write_bookshelves" -> Ok("WriteBookshelves")
      [] s = "read_bookshelf_items" -> Ok("ReadBookshelfItems")
      [] s = "write_bookshelf_items" -> Ok("WriteBookshelfItems")
      [] s = "read_pms" -> Ok("ReadPms")
      [] s = "write_pms" -> Ok("WritePms")
      [] s = "write_followers" -> Ok("WriteFollowers")
      [] s = "read_stories" -> Ok("ReadStories")
      [] s = "write_stories" -> Ok("WriteStories")
      [] s = "write_comments" -> Ok("WriteComments")
      [] s = "read_user" -> Ok("ReadUser")
      [] s = "write_user" -> Ok("WriteUser")
      [] s = "read_chapter_read" -> Ok("ReadChapterRead")
      [] s = "write_chapter_read" -> Ok("WriteChapterRead")
      [] OTHER -> Err(ParseScopeError(s))

\* A faulty parser: "read_stories" is accepted too, as a second name of
\* ReadStories.
Scope_from_str_two_names(s) ==
    IF s = "read_stories" THEN Ok("ReadStories")
    ELSE Scope_from_str_read_stories(IF s = "read_followers" THEN "read_stories" ELSE s)

\* impl FromStr for Scope
Scope_from_str(s) ==
    CASE s = "write_blog_posts" -> Ok("WriteBlogPosts")
      [] s = "read_bookshelves" -> Ok("ReadBookshelves")
      [] s = "write_bookshelves" -> Ok("WriteBookshelves")
      [] s = "read_bookshelf_items" -> Ok("ReadBookshelfItems")
      [] s = "write_bookshelf_items" -> Ok("WriteBookshelfItems")
      [] s = "read_pms" -> Ok("ReadPms")
      [] s = "write_pms" -> Ok("WritePms")
      [] s = "write_followers" -> Ok("WriteFollowers")
      [] s = "read_followers" -> Ok("ReadStories")
      [] s = "write_stories" -> Ok("WriteStories")
      [] s = "write_comments" -> Ok("WriteComments")
      [] s = "read_user" -> Ok("ReadUser")
      [] s = "write_user" -> Ok("WriteUser")
      [] s = "read_chapter_read" -> Ok("ReadChapterRead")
      [] s = "write_chapter_read" -> Ok("WriteChapterRead")
      [] OTHER -> Err(ParseScopeError(s))

(***************************************************************************)
(* Inputs.                                                                 *)
(***************************************************************************)
\* Error codes: the small codes of every family, the large-code threshold
\* and the large codes of family 422, each with a margin on both sides,
\* and some codes far from every family.
Codes ==
    ((4000 - Margin) .. (4299 + Margin))
    \cup ((10000 - Margin) .. (10000 + Margin))
    \cup ((42200 - Margin) .. (42299 + Margin))
    \cup {0, 1, 40, 400, 403, 422, 429, 5000, 5001, 40000, 40300, 42900, 422000}

Decoders == {"ErrorKind", "Malformed", "Forbidden", "NotFound", "Unprocessable"}

Decode(d, c) ==
    CASE d = "ErrorKind" -> ErrorKind_try_from(c)
      [] d = "Malformed" -> Malformed_try_from(c)
      [] d = "Forbidden" -> Forbidden_try_from(c)
      [] d = "NotFound" -> NotFound_try_from(c)
      [] d = "Unprocessable" -> Unprocessable_try_from(c)

\* Wire strings: the canonical ones and some that name no scope.
WireStrings ==
    { Scope_as_str(s) : s \in Scopes }
    \cup { "Gibberish", "read_stories", "", "WRITE_STORIES", "write_stories ",
           "read_blog_posts", "WriteStories" }

\* The `code` member of an error element.
EnvelopeCodes ==
    {0, 4000, 4001, 4032, 4042, 4225, 4290, 4297, 4311, 5000, 10000, 42212, 42213}
CodeMembers ==
    { JU64(c) : c \in EnvelopeCodes }
    \cup { JNum("NegInt", -4032), JNum("Float", 4032), JStr("4032"), JNull }

\* The `meta` member of an error element.
MetaMembers ==
    { JNull, JStr("why"), JObj([x |-> JU64(1)]), JArr(<<JU64(1), JStr("a")>>) }

\* An object with the members given: each an Option, None for an absent one.
ErrorObject(code, meta) ==
    JObj([k \in (IF code.some THEN {"code"} ELSE {})
                \cup (IF meta.some THEN {"meta"} ELSE {})
          |-> IF k = "code" THEN code.val ELSE meta.val])

\* First elements of an `errors` array.
FirstElements ==
    { ErrorObject(c, m) : c \in { Some(v) : v \in CodeMembers } \cup {None},
                          m \in { Some(v) : v \in MetaMembers } \cup {None} }
    \cup { JNull, JU64(4032), JStr("4032"), JArr(<<JU64(4032)>>) }

\* A second element, which differs from every first element.
SecondElement == ErrorObject(Some(JU64(4041)), Some(JStr("second")))

\* The `errors` member of a body.
ErrorsMembers ==
    { JArr(<<e>>) : e \in FirstElements }
    \cup { JArr(<<e, SecondElement>>) : e \in FirstElements }
    \cup { JArr(<<>>), JNull, JStr("oops"), JObj([code |-> JU64(4032)]) }

\* The `access_token` member of a token response.
AccessTokens == {"abc123", "", "Bearer abc123", "s3cr3t token"}
TokenMembers ==
    { JStr(t) : t \in AccessTokens } \cup { JNull, JU64(123), JArr(<<JStr("abc123")>>) }

\* Bodies: error envelopes, token responses, other JSON, and text that is
\* not JSON (the empty body among it).
Bodies ==
    { JsonBody(JObj([errors |-> e])) : e \in ErrorsMembers }
    \cup { JsonBody(JObj([access_token |-> t])) : t \in TokenMembers }
    \cup { JsonBody(JObj([access_token |-> JStr("abc123"), expires_in |-> JU64(3600)])),
           JsonBody(JObj([token |-> JStr("abc123")])),
           JsonBody(JObj([code |-> JU64(4032)])),
           JsonBody(JObj(<<>>)), JsonBody(JArr(<<>>)), JsonBody(JNull),
           JsonBody(JStr("errors")) }
    \cup { TextBody(""), TextBody("<html>Bad Gateway</html>") }

Statuses == {200, 201, 204, 302, 400, 403, 404, 422, 429, 499, 500, 502, 503, 599}

Responses == { Response(st, b) : st \in Statuses, b \in Bodies }

\* Strings given to Client::from_token.
GivenTokens == {"Bearer abc123", "abc123", "", "bearer abc123", "Bearer", "Bearer "}

(***************************************************************************)
(* The state machine: one caller, which makes a call of the library and,   *)
(* once it holds a Ready client, reads its token.  The library keeps no    *)
(* state between calls.  The async functions are suspended at each .await  *)
(* of the transport, where the caller may also drop their future.          *)
(***************************************************************************)
Init ==
    /\ client = Uninitialized
    /\ requests = 0
    /\ body_read = FALSE
    /\ op = "none"
    /\ pc = "idle"
    /\ arg = [none |-> TRUE]
    /\ ret = [outcome |-> "none"]

\* A caller decodes a numeric error code with one of the TryFrom<u64> impls.
TryFromCode ==
    /\ op = "none"
    /\ \E d \in Decoders, c \in Codes :
        /\ op' = "try_from"
        /\ arg' = [decoder |-> d, code |-> c]
        /\ ret' = Return(Decode(d, c))
    /\ pc' = "done"
    /\ UNCHANGED <<client, requests, body_read>>

\* extract_api_response on a response received from the server, up to its
\* first .await: a 5xx status returns at once, every other status suspends
\* the call at s.json().await with the body unread.
ExtractApiResponse ==
    /\ op = "none"
    /\ \E s \in Responses :
        /\ op' = "extract_api_response"
        /\ arg' = s
        /\ IF awaits_json(s.status)
           THEN /\ ret' = ret
                /\ pc' = "json"
           ELSE /\ ret' = extract_api_response(s).out
                /\ pc' = "done"
    /\ UNCHANGED <<client, requests, body_read>>

\* s.json().await resolves: the body has been read and extract_api_response
\* ends.
ExtractApiResponseBody ==
    /\ op = "extract_api_response"
    /\ pc = "json"
    /\ LET x == extract_api_response(arg) IN
        /\ ret' = x.out
        /\ body_read' = x.body_read
    /\ pc' = "done"
    /\ UNCHANGED <<client, requests, op, arg>>

\* Client::with_client (and Client::new, which calls it) up to its first
\* .await: the POST to the token endpoint is sent and the reply awaited.
WithClient ==
    /\ op = "none"
    /\ client.state = "Uninitialized"
    /\ op' = "with_client"
    /\ requests' = requests + 1
    /\ pc' = "send"
    /\ UNCHANGED <<client, body_read, arg, ret>>

\* send().await resolves, with a response or with a failure to send.  A
\* failure and a 5xx response end the call; any other response suspends it
\* in extract_api_response, at s.json().await.
WithClientReply ==
    /\ op = "with_client"
    /\ pc = "send"
    /\ \E reply \in { Sent(s) : s \in Responses } \cup {SendFailure} :
        /\ arg' = reply
        /\ IF reply.sent /\ awaits_json(reply.response.status)
           THEN /\ ret' = ret
                /\ pc' = "json"
           ELSE /\ ret' = Client_with_client(reply)
                /\ pc' = "done"
    /\ UNCHANGED <<client, requests, body_read, op>>

\* s.json().await resolves inside with_client: the body has been read,
\* extract_api_response ends and the Client is built, or the call fails.
WithClientBody ==
    /\ op = "with_client"
    /\ pc = "json"
    /\ LET r == Client_with_client(arg) IN
        /\ ret' = r
        /\ client' = IF r.outcome = "return" /\ r.result.ok
                     THEN Ready(r.result.val)
                     ELSE client
    /\ body_read' = extract_api_response(arg.response).body_read
    /\ pc' = "done"
    /\ UNCHANGED <<requests, op, arg>>

\* The caller drops the future of a suspended call: it never ends.
DropFuture ==
    /\ pc \in {"send", "json"}
    /\ pc' = "dropped"
    /\ UNCHANGED <<client, requests, body_read, op, arg, ret>>

\* Client::from_token: no network call.
FromToken ==
    /\ op = "none"
    /\ client.state = "Uninitialized"
    /\ \E tok \in GivenTokens :
        /\ op' = "from_token"
        /\ arg' = [tok |-> tok]
        /\ client' = Ready(Client_from_token(tok))
        /\ ret' = Return(Ok(Client_from_token(tok)))
    /\ pc' = "done"
    /\ UNCHANGED <<requests, body_read>>

\* Client::bearer_token on a Ready client.
BearerToken ==
    /\ op \in {"with_client", "from_token"}
    /\ client.state = "Ready"
    /\ op' = "bearer_token"
    /\ ret' = Return(Client_bearer_token(client))
    /\ UNCHANGED <<client, requests, body_read, pc, arg>>

\* Scope::as_str
ScopeAsStr ==
    /\ op = "none"
    /\ \E s \in Scopes :
        /\ op' = "as_str"
        /\ arg' = [scope |-> s]
        /\ ret' = Return(Scope_as_str(s))
    /\ pc' = "done"
    /\ UNCHANGED <<client, requests, body_read>>

\* Scope::from_str
ScopeFromStr ==
    /\ op = "none"
    /\ \E s \in WireStrings :
        /\ op' = "from_str"
        /\ arg' = [s |-> s]
        /\ ret' = Return(Scope_from_str(s))
    /\ pc' = "done"
    /\ UNCHANGED <<client, requests, body_read>>

\* Scope::from_str on the string Scope::as_str gave.
ScopeRoundTrip ==
    /\ op = "as_str"
    /\ op' = "round_trip"
    /\ ret' = Return(Scope_from_str(ret.result))
    /\ UNCHANGED <<client, requests, body_read, pc, arg>>

Next ==
    \/ TryFromCode
    \/ ExtractApiResponse
    \/ ExtractApiResponseBody
    \/ WithClient
    \/ WithClientReply
    \/ WithClientBody
    \/ DropFuture
    \/ FromToken
    \/ BearerToken
    \/ ScopeAsStr
    \/ ScopeFromStr
    \/ ScopeRoundTrip

Spec == Init /\ [][Next]_vars

(***************************************************************************)
(* Reading the call at hand, for the properties below.                     *)
(***************************************************************************)
StartsWith(s, prefix) ==
    Len(s) >= Len(prefix) /\ SubSeq(s, 1, Len(prefix)) = prefix

\* The body is a JSON object whose `errors` is an array with an element.
HasErrorsArray(body) ==
    /\ body.json
    /\ body.value.t = "object"
    /\ "errors" \in DOMAIN body.value.o
    /\ body.value.o["errors"].t = "array"
    /\ Len(body.value.o["errors"].a) >= 1

Element0(body) == body.value.o["errors"].a[1]

\* The element is an object whose `code` is an unsigned integer.
HasU64Code(e) ==
    /\ e.t = "object"
    /\ "code" \in DOMAIN e.o
    /\ e.o["code"].t = "number"
    /\ e.o["code"].k = "PosInt"

\* The element's `meta`, JSON null when it has none.
MetaOrNull(e) == IF "meta" \in DOMAIN e.o THEN e.o["meta"] ELSE JNull

\* A call of extract_api_response that has ended.
ExtractEnded == op = "extract_api_response" /\ pc = "done"

IsClientErrorCall == ExtractEnded /\ arg.status \in 400..499

MetaX1 == JObj([x |-> JU64(1)])

(***************************************************************************)
(* Properties.                                                             *)
(***************************************************************************)
\* C1: on a 4xx response whose body has an `errors` array with an element 0
\* whose `code` is an unsigned integer the decoder accepts,
\* extract_api_response returns Err(Error::API(e)) with e.kind the decoded
\* code and e.meta element 0's `meta` (JSON null when absent); the elements
\* after the first do not matter.
C1_ApiErrorFromFirstElement ==
    (/\ IsClientErrorCall
     /\ HasErrorsArray(arg.body)
     /\ HasU64Code(Element0(arg.body))
     /\ ErrorKind_try_from(Element0(arg.body).o["code"].n).ok)
    => LET e == Element0(arg.body) IN
       ret = Return(Err(Error_API(
                 APIError(ErrorKind_try_from(e.o["code"].n).val, MetaOrNull(e)))))

\* C1 witness: a 404 with two error elements; the first (4042, no meta) is
\* the one reported.
C1_Witness ==
    /\ IsClientErrorCall
    /\ arg.status = 404
    /\ HasErrorsArray(arg.body)
    /\ Len(arg.body.value.o["errors"].a) = 2
    /\ Element0(arg.body) = JObj([code |-> JU64(4042)])
    /\ ret = Return(Err(Error_API(APIError(Kind("NotFound", "EndpointMissing"), JNull))))

\* The response of the spec's example: 403 with one error of the code given.
ForbiddenExample(code) ==
    Response(403, JsonBody(JObj([errors |->
        JArr(<<JObj([code |-> JU64(code), meta |-> MetaX1])>>)])))

\* C2 as stated: status 403 with body {"errors":[{"code":4311,"meta":{"x":1}}]}
\* yields an APIError with family Forbidden, sub-kind InvalidToken, meta {"x":1}.
C2_Original ==
    (ExtractEnded /\ arg = ForbiddenExample(4311))
    => ret = Return(Err(Error_API(APIError(Kind("Forbidden", "InvalidToken"), MetaX1))))

\* C2 amended: the code of Forbidden/InvalidToken is 4032 (403*10 + 2); status
\* 403 with body {"errors":[{"code":4032,"meta":{"x":1}}]} yields an APIError
\* with family Forbidden, sub-kind InvalidToken, meta {"x":1}.
C2_Amended ==
    (ExtractEnded /\ arg = ForbiddenExample(4032))
    => ret = Return(Err(Error_API(APIError(Kind("Forbidden", "InvalidToken"), MetaX1))))

\* C2 witness: the amended example has been extracted.
C2_Witness ==
    /\ op = "extract_api_response"
    /\ arg = ForbiddenExample(4032)
    /\ ret.outcome = "return"
    /\ ret.result.err.error.kind.sub = "InvalidToken"

\* C3: on a 4xx response whose JSON body lacks the envelope shape (no
\* `errors`, `errors` not an array or empty, element 0 without `code`, `code`
\* not an unsigned integer) extract_api_response does not panic: it returns
\* a failure that is InvalidErrorCode::Invalid carrying the malformed value.
C3_MalformedEnvelopeReturned ==
    (/\ IsClientErrorCall
     /\ arg.body.json
     /\ ~(HasErrorsArray(arg.body) /\ HasU64Code(Element0(arg.body))))
    => /\ ret.outcome = "return"
       /\ ~ret.result.ok
       /\ ret.result.err.variant = "Invalid"

\* C3: what the code does there: the unwrap of the decode failure panics,
\* the Invalid value being the payload of the panic.
C3_Witness ==
    /\ IsClientErrorCall
    /\ arg = Response(400, JsonBody(JObj(<<>>)))
    /\ ret = Panic(Invalid(JObj(<<>>)))
\* The token response of a with_client call is success-class (neither 4xx
\* nor 5xx) and its body is JSON.
IsTokenSuccessCall ==
    /\ op = "with_client"
    /\ pc = "done"
    /\ arg.sent
    /\ arg.response.status \notin 400..599
    /\ arg.response.body.json

\* The decoded token response has a string `access_token`.
HasStringAccessToken(v) ==
    /\ v.t = "object"
    /\ "access_token" \in DOMAIN v.o
    /\ v.o["access_token"].t = "string"

\* C4: in with_client, when the success-class token response's JSON has no
\* `access_token` or one that is not a string, construction fails with an
\* error returned as Err; it does not panic and the client is not Ready.
C4_MissingTokenReturnsErr ==
    (IsTokenSuccessCall /\ ~HasStringAccessToken(arg.response.body.value))
    => /\ ret.outcome = "return"
       /\ ~ret.result.ok
       /\ client.state # "Ready"

\* C4: what the code does there: the unwrap of the missing member panics.
C4_Witness ==
    /\ IsTokenSuccessCall
    /\ arg.response = Response(200, JsonBody(JObj(<<>>)))
    /\ ret.outcome = "panic"
    /\ client.state = "Uninitialized"

\* The table of C5: the sub-kind of each valid code of families 400, 403, 404.
C5_Table ==
    (4001 :> Kind("Malformed", "Body")) @@ (4002 :> Kind("Malformed", "Include"))
    @@ (4030 :> Kind("Forbidden", "InvalidPermission"))
    @@ (4031 :> Kind("Forbidden", "MissingScope"))
    @@ (4032 :> Kind("Forbidden", "InvalidToken"))
    @@ (4040 :> Kind("NotFound", "ResourceNotFound"))
    @@ (4041 :> Kind("NotFound", "InvalidApplication"))
    @@ (4042 :> Kind("NotFound", "EndpointMissing"))

\* C5: for every code c with c/10 in {400, 403, 404, 429}, ErrorKind::try_from
\* gives RateLimited when c/10 = 429 (any remainder), the sub-kind of the
\* table for the table's codes, and a decode failure for every other code.
C5_FamilyTable ==
    (/\ op = "try_from"
     /\ arg.decoder = "ErrorKind"
     /\ arg.code \div 10 \in {400, 403, 404, 429})
    => /\ ret.outcome = "return"
       /\ IF arg.code \div 10 = 429 THEN ret.result = Ok([family |-> "RateLimited"])
          ELSE IF arg.code \in DOMAIN C5_Table THEN ret.result = Ok(C5_Table[arg.code])
          ELSE ~ret.result.ok

\* C5 witness: 4000, the unused sub-index 0 of Malformed, has failed to decode.
C5_Witness ==
    /\ op = "try_from"
    /\ arg = [decoder |-> "ErrorKind", code |-> 4000]
    /\ ret.outcome = "return"
    /\ ~ret.result.ok

\* The reference rule of C6: the sub-index of c as a code of family 422, or
\* None: below 10000 the code is 422*10 + i (i in 0..9), from 10000 on it is
\* 422*100 + i (i in 0..12).
C6_Reference(c) ==
    IF c < 10000
    THEN IF c \div 10 = 422 THEN Some(c % 10) ELSE None
    ELSE IF c \div 100 = 422 /\ c % 100 <= 12 THEN Some(c % 100) ELSE None

\* C6: for every code c, decoding c as family 422 (by Unprocessable's decoder,
\* or through ErrorKind's) succeeds exactly when the reference rule gives a
\* sub-index, and then with the sub-kind at that sub-index.
C6_DualEncoding ==
    (op = "try_from" /\ arg.decoder \in {"Unprocessable", "ErrorKind"})
    => LET i == C6_Reference(arg.code)
           unprocessable ==
               /\ ret.result.ok
               /\ (arg.decoder = "ErrorKind" => ret.result.val.family = "Unprocessable")
       IN /\ ret.outcome = "return"
          /\ unprocessable <=> i.some
          /\ i.some =>
               ret.result = Ok(IF arg.decoder = "ErrorKind"
                               THEN Kind("Unprocessable", UnprocessableTable[i.val + 1])
                               ELSE UnprocessableTable[i.val + 1])

\* C6 witness: 42200, the large encoding of sub-index 0, has decoded to the
\* sub-kind 4220 decodes to.
C6_Witness ==
    /\ op = "try_from"
    /\ arg = [decoder |-> "ErrorKind", code |-> 42200]
    /\ ret = Return(ErrorKind_try_from(4220))
    /\ ret.result = Ok(Kind("Unprocessable", "MissingParameter"))

\* C7 as stated: every Ready client, whichever path made it, holds a string
\* that begins with "Bearer ".
C7_Original ==
    client.state = "Ready" => StartsWith(client.bearer_token, "Bearer ")

\* C7 amended: a Ready client made by the OAuth exchange holds a string that
\* begins with "Bearer "; a Ready client made by from_token(tok) holds tok
\* itself, unchanged, so its string begins with "Bearer " exactly when tok
\* does; bearer_token() returns the string held.
C7_Amended ==
    /\ (op = "with_client" /\ client.state = "Ready")
           => StartsWith(client.bearer_token, "Bearer ")
    /\ op = "from_token" => client = Ready(arg.tok)
    /\ op = "bearer_token"
           => /\ ret = Return(client.bearer_token)
              /\ "sent" \in DOMAIN arg => StartsWith(ret.result, "Bearer ")
              /\ "tok" \in DOMAIN arg => ret.result = arg.tok

\* C7 witness: bearer_token() of a client made by from_token("abc123") has
\* returned "abc123".
C7_Witness ==
    /\ op = "bearer_token"
    /\ arg = [tok |-> "abc123"]
    /\ client.state = "Ready"
    /\ ret = Return("abc123")

\* C8: when the POST to the token endpoint gets a success-class response
\* whose JSON has a string `access_token` t, construction succeeds, the
\* client's bearer_token() is "Bearer " followed by t, and the one POST is
\* the only request made.
C8_BearerFromAccessToken ==
    /\ (IsTokenSuccessCall /\ HasStringAccessToken(arg.response.body.value))
       => LET t == arg.response.body.value.o["access_token"].s IN
          /\ ret = Return(Ok("Bearer " \o t))
          /\ client = Ready("Bearer " \o t)
          /\ requests = 1
    /\ (op = "bearer_token" /\ "sent" \in DOMAIN arg)
       => /\ HasStringAccessToken(arg.response.body.value)
          /\ LET t == arg.response.body.value.o["access_token"].s IN
             /\ ret = Return("Bearer " \o t)
             /\ requests = 1
    /\ op = "with_client" => requests = 1

\* C8 witness: after status 200 with body {"access_token":"abc123"},
\* bearer_token() has returned "Bearer abc123".
C8_Witness ==
    /\ op = "bearer_token"
    /\ arg = Sent(Response(200, JsonBody(JObj([access_token |-> JStr("abc123")]))))
    /\ ret = Return("Bearer abc123")
    /\ requests = 1

\* C9: on every 5xx response, whatever its body, extract_api_response
\* returns Err(Error::Request(..)) for the status, without reading the body
\* and without panicking.
C9_ServerErrorIsRequestError ==
    (op = "extract_api_response" /\ arg.status \in 500..599)
    => /\ ret = Return(Err(Error_Request("Status")))
       /\ ~body_read

\* C9 witness: status 500 with an empty body has been extracted.
C9_Witness ==
    /\ op = "extract_api_response"
    /\ arg = Response(500, TextBody(""))
    /\ ret.outcome = "return"
    /\ ret.result.err.variant = "Request"
    /\ ~body_read

\* C10: for each of the 15 scopes s, from_str(as_str(s)) = Ok(s); and for
\* every string that is none of the 15 wire strings as_str gives, from_str
\* returns Err(ParseScopeError) carrying that string.
C10_ScopeRoundTrip ==
    /\ Cardinality(Scopes) = 15
    /\ op = "round_trip" => ret = Return(Ok(arg.scope))
    /\ (op = "from_str" /\ \A x \in Scopes : Scope_as_str(x) # arg.s)
           => ret = Return(Err(ParseScopeError(arg.s)))

\* C10 witness: ReadStories, whose wire string is "read_followers", has
\* made the round trip.
C10_Witness ==
    /\ op = "round_trip"
    /\ arg = [scope |-> "ReadStories"]
    /\ Scope_as_str(arg.scope) = "read_followers"
    /\ ret = Return(Ok("ReadStories"))
\* C11 as stated: from_str maps both "read_stories" and "read_followers" to
\* ReadStories, so the mapping from wire strings to scopes is not injective.
C11_Original ==
    (op = "from_str" /\ arg.s \in {"read_stories", "read_followers"})
    => ret = Return(Ok("ReadStories"))

\* C11 amended: from_str maps "read_followers" to ReadStories and rejects
\* "read_stories" with a ParseScopeError carrying it; the mapping from wire
\* strings to scopes is injective: a string from_str accepts is the string
\* as_str gives for the scope it maps to.
C11_Amended ==
    op = "from_str"
    => /\ ret.outcome = "return"
       /\ arg.s = "read_followers" => ret.result = Ok("ReadStories")
       /\ arg.s = "read_stories" => ret.result = Err(ParseScopeError("read_stories"))
       /\ ret.result.ok => Scope_as_str(ret.result.val) = arg.s

\* C11 witness: from_str("read_stories") has failed.
C11_Witness ==
    /\ op = "from_str"
    /\ arg = [s |-> "read_stories"]
    /\ ret = Return(Err(ParseScopeError("read_stories")))

\* C12: for every code c, ErrorKind::try_from(c) returns without panicking
\* and, when it fails, fails with BadCode(c), c being the code given, both
\* for an unmapped sub-index and for a code of no known family.
C12_BadCodeCarriesInput ==
    (op = "try_from" /\ arg.decoder = "ErrorKind")
    => /\ ret.outcome = "return"
       /\ ~ret.result.ok => ret.result.err = BadCode(arg.code)

\* C12: what the code does for a code of no known family: 5000 has failed
\* with BadCode(500), the code divided by ten.
C12_Witness ==
    /\ op = "try_from"
    /\ arg = [decoder |-> "ErrorKind", code |-> 5000]
    /\ ret = Return(Err(BadCode(500)))
====
